---------------------------- MODULE Spec2Model ----------------------------
(***************************************************************************)
(* Model of ocrd_cor_asv_ann/wrapper/transcode.py: the post-correction     *)
(* wrapper that maps a corrected line back onto the PAGE hierarchy.        *)
(*                                                                         *)
(*   _page_get_line_sequences_at      flatten the hierarchy into lines     *)
(*   _line_sequences2string_sequences concatenate to strings + start maps  *)
(*   _alignment2path                  soft alignment -> hard path          *)
(*   _update_sequence                 distribute the corrected line        *)
(*   _resegment_sequence              merge / split Words                  *)
(*   page_update_higher_textequiv_levels  recompute the upper levels       *)
(*                                                                         *)
(* Strings are sequences of one-character strings; Python offsets are      *)
(* 0-based, so s[a:b] is Slice(s, a, b).  Objects (TextEquiv, Glyph, Word, *)
(* TextLine) live in heaps indexed by their identity, because the code     *)
(* shares and compares them by reference.  Confidences are exact rationals *)
(* <<numerator, denominator>>.  Coords, ids, language and TextStyle of the *)
(* Words are not modelled.                                                 *)
(***************************************************************************)
EXTENDS Integers, Sequences, FiniteSets, TLC

VARIABLES
    pc,             \* position in ANNCorrection.process / in the call
    level,          \* parameter textequiv_level
    tes,            \* heap of TextEquiv objects
    gls,            \* heap of Glyph objects
    wds,            \* heap of Word objects
    lns,            \* heap of TextLine objects
    rgn,            \* the TextRegion: its TextLine list and TextEquiv list
    line_sequences, \* result of _page_get_line_sequences_at
    input_lines,    \* per line: the concatenated string
    conf,           \* per line: the per-character confidences
    starts,         \* per line: textequiv_starts/word_starts/textline_starts
    output_lines,   \* per line: the corrected string
    output_probs,   \* per line: the per-character probabilities
    alignments,     \* per line: the soft alignment matrix
    n,              \* index of the line the loop of process is at
    alignment,      \* _alignment2path: argument alignment
    i_max,          \* _alignment2path: argument i_max
    j_max,          \* _alignment2path: argument j_max
    min_score,      \* _alignment2path: argument min_score
    realignment,    \* the hard path (a dict: a function on its keys)
    new_sequence,   \* result of _update_sequence for the current line
    rs_i,           \* _resegment_sequence: index of enumerate(sequence)
    err,            \* the AssertionError that ended process, or "none"
    orig,           \* the TextEquiv objects and the TextLines before the correction
    log             \* the kinds of the LOG.error calls of _resegment_sequence

vars == <<pc, level, tes, gls, wds, lns, rgn, line_sequences, input_lines,
          conf, starts, output_lines, output_probs, alignments, n, alignment,
          i_max, j_max, min_score, realignment, new_sequence, rs_i, err,
          orig, log>>

---------------------------------------------------------------------------
(* Bounds of the model. *)

\* _alignment2path on its own: largest input length explored
MaxI == 3
\* _alignment2path on its own: largest output length explored
MaxJ == 3
\* _alignment2path on its own: alignment scores are 0..MaxScore
MaxScore == 1
\* _alignment2path on its own: largest number of cells of the matrix
MaxCells == 9

\* the page: largest number of TextLines
MaxLines == 2
\* the page: largest number of Words of a TextLine
MaxWords == 3
\* the page: largest number of Glyphs of a Word
MaxGlyphs == 2
\* the page: largest number of characters of all its line strings together
MaxIn == 6
\* the correction: largest number of input characters the model changes
MaxEdits == 2

---------------------------------------------------------------------------
(* Characters and strings. *)

SP == " "
NL == "\n"
\* GAP of lib.seq2seq: the unmapped character that stands for an empty
\* element; it is no whitespace.
GAP == "_"

\* what str.split() and the whitespace tuples of the code treat as whitespace
IsWs(c) == c \in {SP, NL}

\* Python s[a:b] for 0 <= a, b <= len(s)
Slice(s, a, b) == SubSeq(s, a + 1, b)

\* bool(s.split()): s holds a non-whitespace character
HasNonWs(s) == \E k \in 1..Len(s) : ~IsWs(s[k])

Min(a, b) == IF a < b THEN a ELSE b
Max(a, b) == IF a > b THEN a ELSE b

RECURSIVE SumSeq(_)
SumSeq(s) == IF s = <<>> THEN 0 ELSE Head(s) + SumSeq(Tail(s))

\* concatenation of a sequence of sequences
RECURSIVE Flat(_)
Flat(ss) == IF ss = <<>> THEN <<>> ELSE Head(ss) \o Flat(Tail(ss))

---------------------------------------------------------------------------
(* Confidences: exact rationals <<numerator, denominator>>. *)

\* conf = None (the attribute is not set)
NoConf == <<0, 0>>
\* the float nan, what np.mean gives for an empty list
NaN == <<1, 0>>
One == <<1, 1>>

RECURSIVE GCD(_, _)
GCD(a, b) == IF b = 0 THEN a ELSE GCD(b, a % b)

RNorm(r) ==
    IF r[2] = 0 THEN NaN
    ELSE LET g == GCD(r[1], r[2]) IN <<r[1] \div g, r[2] \div g>>
RAdd(p, q) == RNorm(<<p[1] * q[2] + q[1] * p[2], p[2] * q[2]>>)
RMul(p, q) == RNorm(<<p[1] * q[1], p[2] * q[2]>>)

RECURSIVE RSum(_)
RSum(s) == IF s = <<>> THEN <<0, 1>> ELSE RAdd(Head(s), RSum(Tail(s)))

\* np.mean of a list of numbers
Mean(s) ==
    IF s = <<>> THEN NaN
    ELSE LET t == RSum(s) IN RNorm(<<t[1], t[2] * Len(s)>>)

---------------------------------------------------------------------------
(* _alignment2path *)

\* numpy indexing: a negative index counts from the end
Wrap(k, len) == IF k < 0 THEN k + len ELSE k

\* viterbi_fw[a, b] with numpy's wrap-around of negative indexes
FwAt(fw, I, J, a, b) == fw[<<Wrap(a, I), Wrap(b, J)>>]

\* lines 304-316: the forward score of cell (i, j)
ForwardCell(A, fw, i, j) ==
    LET im1  == IF i > 0 THEN fw[<<i - 1, j>>] ELSE 0
        jm1  == IF j > 0 THEN fw[<<i, j - 1>>] ELSE 0
        ijm1 == IF i > 0 /\ j > 0 THEN fw[<<i - 1, j - 1>>] ELSE 0
    IN  A[j][i] + Max(im1, Max(jm1, ijm1))

\* lines 317-325: advance to the next cell whose score exceeds min_score
\* (or to (i_max, j_max) when there is none)
RECURSIVE NextCell(_, _, _, _, _, _)
NextCell(A, I, J, theta, i, j) ==
    IF i + 1 = I
    THEN IF j + 1 = J
         THEN <<I, J>>
         ELSE IF A[j + 1][0] > theta
              THEN <<0, j + 1>>
              ELSE NextCell(A, I, J, theta, 0, j + 1)
    ELSE IF A[j][i + 1] > theta
         THEN <<i + 1, j>>
         ELSE NextCell(A, I, J, theta, i + 1, j)

\* lines 301-325: the Viterbi forward pass
RECURSIVE ForwardPass(_, _, _, _, _, _, _)
ForwardPass(A, I, J, theta, fw, i, j) ==
    IF i < I /\ j < J
    THEN LET fw2 == [fw EXCEPT ![<<i, j>>] = ForwardCell(A, fw, i, j)]
             nxt == NextCell(A, I, J, theta, i, j)
         IN  ForwardPass(A, I, J, theta, fw2, nxt[1], nxt[2])
    ELSE fw

ViterbiForward(A, I, J, theta) ==
    ForwardPass(A, I, J, theta,
                [c \in (0..(I - 1)) \X (0..(J - 1)) |-> 0], 0, 0)

\* np.argmax of a non-empty sequence: the first index (0-based) of its maximum
ArgMax(v) ==
    CHOOSE k \in 0..(Len(v) - 1) :
        /\ \A m \in 1..Len(v) : v[m] <= v[k + 1]
        /\ \A m \in 1..k : v[m] < v[k + 1]

\* the start of the Python slice x[s:] of a sequence of length len
SliceStart(s, len) == IF s < 0 THEN Max(s + len, 0) ELSE Min(s, len)

\* line 327-328: the input position the backward pass starts at
StartI(fw, I, J) ==
    IF I <= J
    THEN I - 1
    ELSE LET s == SliceStart(J - I - 2, I)
         IN  J - 2 + ArgMax([k \in 1..(I - s) |-> fw[<<s + k - 1, J - 1>>]])

\* line 329-330: the output position the backward pass starts at
StartJ(fw, I, J) ==
    IF J <= I
    THEN J - 1
    ELSE LET s == SliceStart(I - J - 2, J)
         IN  I - 2 + ArgMax([k \in 1..(J - s) |-> fw[<<I - 1, s + k - 1>>]])

\* lines 334-344: one step of the backward pass, from (i, j)
BackStep(fw, I, J, i, j) ==
    LET up   == FwAt(fw, I, J, i - 1, j)
        left == FwAt(fw, I, J, i, j - 1)
        diag == FwAt(fw, I, J, i - 1, j - 1)
    IN  IF up > left
        THEN IF up > diag THEN <<i - 1, j>> ELSE <<i - 1, j - 1>>
        ELSE IF left > diag THEN <<i, j - 1>> ELSE <<i - 1, j - 1>>

\* lines 332-344: the Viterbi backward pass; a later visit of an input
\* position overwrites the earlier one
RECURSIVE BackwardPass(_, _, _, _, _, _)
BackwardPass(fw, I, J, r, i, j) ==
    IF i >= 0 /\ j >= 0
    THEN LET nxt == BackStep(fw, I, J, i, j)
         IN  BackwardPass(fw, I, J, (i :> j) @@ r, nxt[1], nxt[2])
    ELSE r

\* _alignment2path without line 345 (the start of the line is not forced)
_alignment2path_NoStart(A, I, J, theta) ==
    LET fw == ViterbiForward(A, I, J, theta)
    IN  BackwardPass(fw, I, J, (I :> J), StartI(fw, I, J), StartJ(fw, I, J))

\* _alignment2path with line 331 initialising an empty dict (the end of the
\* line is not forced)
_alignment2path_NoEnd(A, I, J, theta) ==
    LET fw == ViterbiForward(A, I, J, theta)
        r  == BackwardPass(fw, I, J, <<>>, StartI(fw, I, J), StartJ(fw, I, J))
    IN  (0 :> 0) @@ r

\* lines 288-350
_alignment2path(A, I, J, theta) ==
    LET fw == ViterbiForward(A, I, J, theta)
        r  == BackwardPass(fw, I, J, (I :> J), StartI(fw, I, J), StartJ(fw, I, J))
    IN  (0 :> 0) @@ r

---------------------------------------------------------------------------
(* The page that process reads: one TextRegion of TextLines of Words of    *)
(* Glyphs.  A page is drawn by its shape: per TextLine the Words, per Word *)
(* the elements of the processing level, per element the kind of its text. *)

Levels == {"glyph", "word", "line"}

\* kinds of an element's text: no TextEquiv at all, or the pattern of its
\* Unicode ("1" and "2" stand for the element's own two letters)
NoText == <<"-">>
GlyphKinds == {<<"1">>}
WordKinds == {NoText, <<>>, <<"1">>, <<"1", "2">>}
LineKinds == {NoText, <<>>, <<"1">>, <<"1", "2">>, <<"1", SP, "2">>}

Letters1 == <<"a", "b", "c", "d", "e", "f", "g", "h">>
Letters2 == <<"A", "B", "C", "D", "E", "F", "G", "H">>

\* the Unicode of the k-th element of the page, of the given kind
Text(kind, k) ==
    [m \in 1..Len(kind) |->
        IF kind[m] = "1" THEN Letters1[((k - 1) % 8) + 1]
        ELSE IF kind[m] = "2" THEN Letters2[((k - 1) % 8) + 1]
        ELSE kind[m]]

\* the conf of the k-th element of the page: 9/10, 8/10, 7/10, ...
ConfOf(k) == RNorm(<<10 - (k % 10), 10>>)

\* a TextEquiv of the document (index not set) and one made by
\* _page_get_line_sequences_at for implicit whitespace (index = -1)
NewTe(u, c) == [Unicode |-> u, conf |-> c, index |-> 0]
Synth(c) == [Unicode |-> <<c>>, conf |-> One, index |-> -1]

SeqsUpTo(S, lo, hi) == UNION {[1..m -> S] : m \in lo..hi}

WordShapes(lvl) ==
    IF lvl = "glyph"
    THEN SeqsUpTo(GlyphKinds, 0, MaxGlyphs) \cup {<<<<"1">>, NoText>>}
    ELSE IF lvl = "word" THEN {<<k>> : k \in WordKinds}
    ELSE {<<k>> : k \in LineKinds}

LineShapes(lvl) ==
    IF lvl = "line" THEN {<<w>> : w \in WordShapes(lvl)}
    ELSE SeqsUpTo(WordShapes(lvl), 1, MaxWords)

\* the length of the string an element contributes to its line
KindLen(kind) ==
    IF kind = NoText THEN 0 ELSE IF kind = <<>> THEN 1 ELSE Len(kind)

\* the length of the line string of a TextLine of the given shape
LineLen(lvl, ls) ==
    SumSeq([w \in 1..Len(ls) |->
               SumSeq([g \in 1..Len(ls[w]) |-> KindLen(ls[w][g])])])
    + (IF lvl = "line" THEN 0 ELSE Len(ls) - 1) + 1

PageShapes(lvl) ==
    {ps \in SeqsUpTo({ls \in LineShapes(lvl) : LineLen(lvl, ls) <= MaxIn},
                     1, MaxLines) :
        SumSeq([l \in 1..Len(ps) |-> LineLen(lvl, ps[l])]) <= MaxIn}

\* s1 + sep + s2 + sep + ... of a sequence of strings
RECURSIVE Join(_, _)
Join(sep, ss) ==
    IF ss = <<>> THEN <<>>
    ELSE IF Len(ss) = 1 THEN ss[1]
    ELSE ss[1] \o <<sep>> \o Join(sep, Tail(ss))

\* Building the object heaps of a page; h.k counts the elements so far.
EmptyHeap == [tes |-> <<>>, gls |-> <<>>, wds |-> <<>>, lns |-> <<>>, k |-> 0]

\* the Unicode of the first TextEquiv of an object, '' when it has none
FirstUnicode(T, obj) ==
    IF obj.TextEquiv = <<>> THEN <<>> ELSE T[obj.TextEquiv[1]].Unicode

\* one more Glyph, the k-th element of the page
AddGlyph(h, kind, k) ==
    IF kind = NoText
    THEN [h EXCEPT !.gls = Append(@, [TextEquiv |-> <<>>]), !.k = k]
    ELSE [h EXCEPT !.tes = Append(@, NewTe(Text(kind, k), ConfOf(k))),
                   !.gls = Append(@, [TextEquiv |-> <<Len(h.tes) + 1>>]),
                   !.k = k]

RECURSIVE BuildGlyphs(_, _, _)
BuildGlyphs(h, kinds, acc) ==
    IF kinds = <<>> THEN [h |-> h, ids |-> acc]
    ELSE BuildGlyphs(AddGlyph(h, Head(kinds), h.k + 1), Tail(kinds),
                     Append(acc, Len(h.gls) + 1))

\* one more Word, made of the Glyphs r.ids; its text is theirs
GlyphWord(r) ==
    [r.h EXCEPT
        !.tes = Append(@, NewTe(Flat([g \in 1..Len(r.ids) |->
                                         FirstUnicode(r.h.tes, r.h.gls[r.ids[g]])]),
                                NoConf)),
        !.wds = Append(@, [Glyph |-> r.ids,
                           TextEquiv |-> <<Len(r.h.tes) + 1>>])]

\* one more Word without Glyphs, the k-th element of the page
AddWord(h, kind, k) ==
    IF kind = NoText
    THEN [h EXCEPT !.wds = Append(@, [Glyph |-> <<>>, TextEquiv |-> <<>>]),
                   !.k = k]
    ELSE [h EXCEPT !.tes = Append(@, NewTe(Text(kind, k), ConfOf(k))),
                   !.wds = Append(@, [Glyph |-> <<>>,
                                      TextEquiv |-> <<Len(h.tes) + 1>>]),
                   !.k = k]

BuildWord(h, lvl, ws) ==
    IF lvl = "glyph" THEN GlyphWord(BuildGlyphs(h, ws, <<>>))
    ELSE AddWord(h, ws[1], h.k + 1)

RECURSIVE BuildWords(_, _, _, _)
BuildWords(h, lvl, wss, acc) ==
    IF wss = <<>> THEN [h |-> h, ids |-> acc]
    ELSE BuildWords(BuildWord(h, lvl, Head(wss)), lvl, Tail(wss),
                    Append(acc, Len(h.wds) + 1))

\* one more TextLine, made of the Words r.ids; its text is theirs
WordLine(r) ==
    [r.h EXCEPT
        !.tes = Append(@, NewTe(Join(SP, [w \in 1..Len(r.ids) |->
                                         FirstUnicode(r.h.tes, r.h.wds[r.ids[w]])]),
                                NoConf)),
        !.lns = Append(@, [Word |-> r.ids,
                           TextEquiv |-> <<Len(r.h.tes) + 1>>])]

\* one more TextLine without Words, the k-th element of the page
AddLine(h, kind, k) ==
    IF kind = NoText
    THEN [h EXCEPT !.lns = Append(@, [Word |-> <<>>, TextEquiv |-> <<>>]),
                   !.k = k]
    ELSE [h EXCEPT !.tes = Append(@, NewTe(Text(kind, k), ConfOf(k))),
                   !.lns = Append(@, [Word |-> <<>>,
                                      TextEquiv |-> <<Len(h.tes) + 1>>]),
                   !.k = k]

BuildLine(h, lvl, ls) ==
    IF lvl = "line" THEN AddLine(h, ls[1][1], h.k + 1)
    ELSE WordLine(BuildWords(h, lvl, ls, <<>>))

RECURSIVE BuildLines(_, _, _)
BuildLines(h, lvl, lss) ==
    IF lss = <<>> THEN h
    ELSE BuildLines(BuildLine(h, lvl, Head(lss)), lvl, Tail(lss))

\* the text of the region is the text of its TextLines
RegionOf(h) ==
    [h EXCEPT !.tes = Append(@, NewTe(Join(NL, [l \in 1..Len(h.lns) |->
                                                  FirstUnicode(h.tes, h.lns[l])]),
                                      NoConf))]

\* the page of the given shape; the region's TextEquiv is the last one
BuildPage(lvl, ps) == RegionOf(BuildLines(EmptyHeap, lvl, ps))

---------------------------------------------------------------------------
(* _page_get_line_sequences_at *)

\* sequences[-1].append((textequiv, word, line))
Emit(st, t, word, line) ==
    [st EXCEPT !.seqs[Len(st.seqs)] =
                   Append(@, [te |-> t, word |-> word, line |-> line])]

\* the same for a new TextEquivType(Unicode=c, conf=1.0, index=-1)
EmitSynth(st, c, word, line) ==
    LET tes2 == Append(st.tes, Synth(c))
    IN  Emit([st EXCEPT !.tes = tes2], Len(tes2), word, line)

\* lines 239-245
RECURSIVE GlyphLoop(_, _, _, _)
GlyphLoop(st, glyphs, word, line) ==
    IF glyphs = <<>> THEN st
    ELSE LET t == gls[Head(glyphs)].TextEquiv
         IN  GlyphLoop(IF t = <<>> THEN st ELSE Emit(st, t[1], word, line),
                       Tail(glyphs), word, line)

\* lines 223-245; st.word is the variable word, which outlives the loop
RECURSIVE WordLoop(_, _, _, _)
WordLoop(st, words, first_word, line) ==
    IF words = <<>> THEN st
    ELSE LET word == Head(words)
             st1  == IF first_word THEN st ELSE EmitSynth(st, SP, word, line)
             st2  == [st1 EXCEPT !.word = word]
             st3  == IF level = "word"
                     THEN LET t == wds[word].TextEquiv
                          IN  IF t = <<>> THEN st2
                              ELSE Emit(st2, t[1], word, line)
                     ELSE GlyphLoop(st2, wds[word].Glyph, word, line)
         IN  WordLoop(st3, Tail(words), FALSE, line)

\* lines 205-245; None is 0
RECURSIVE LineLoop(_, _, _)
LineLoop(st, lines, first_line) ==
    IF lines = <<>> THEN st
    ELSE LET line == Head(lines)
             st1  == IF first_line THEN st
                     ELSE EmitSynth(st, NL, st.word, line)
             st2  == [st1 EXCEPT !.seqs = Append(@, <<>>), !.line = line]
             st3  == IF level = "line"
                     THEN LET t == lns[line].TextEquiv
                          IN  IF t = <<>> THEN st2
                              ELSE Emit(st2, t[1], st2.word, line)
                     ELSE WordLoop(st2, lns[line].Word, TRUE, line)
         IN  LineLoop(st3, Tail(lines), FALSE)

\* lines 170-249 for the page's one region: the TextEquiv heap with the
\* whitespace objects added, and the sequences with more than the newline
\* line 247: the newline after the last line
LastNewline(st) ==
    IF st.seqs = <<>> THEN st ELSE EmitSynth(st, NL, st.word, st.line)

\* line 249
MoreThanNewline(st) ==
    [tes  |-> st.tes,
     seqs |-> SelectSeq(st.seqs, LAMBDA line : Len(line) > 1)]

_page_get_line_sequences_at ==
    MoreThanNewline(LastNewline(
        LineLoop([tes |-> tes, seqs |-> <<>>, word |-> 0, line |-> 0],
                 rgn.TextLine, TRUE)))

---------------------------------------------------------------------------
(* _line_sequences2string_sequences *)

\* float(textequiv.conf or "1.0")
FloatConf(c) == IF c = NoConf \/ c[1] = 0 THEN One ELSE c

\* lines 267-285: one line; an empty element becomes GAP in place
RECURSIVE StringLoop(_, _)
StringLoop(st, line_sequence) ==
    IF line_sequence = <<>> THEN st
    ELSE LET e    == Head(line_sequence)
             gap  == st.tes[e.te].Unicode = <<>>
             tes2 == IF gap THEN [st.tes EXCEPT ![e.te].Unicode = <<GAP>>]
                     ELSE st.tes
             u    == tes2[e.te].Unicode
             j    == Len(u)
             st2  == [tes    |-> tes2,
                      line   |-> st.line \o u,
                      conf   |-> st.conf \o [m \in 1..j |-> FloatConf(tes2[e.te].conf)],
                      starts |-> Append(st.starts,
                                        [pos |-> st.i, te |-> e.te,
                                         word |-> e.word, line |-> e.line]),
                      i      |-> st.i + j]
         IN  StringLoop(st2, Tail(line_sequence))

\* lines 260-266, 282-284: the results r of one line join those of the
\* lines before
Collect(acc, r) ==
    [tes         |-> r.tes,
     input_lines |-> Append(acc.input_lines, r.line),
     conf        |-> Append(acc.conf, r.conf),
     starts      |-> Append(acc.starts, r.starts)]

\* lines 259-286: all lines, threading the TextEquiv heap
RECURSIVE StringSequences(_, _)
StringSequences(acc, seqs) ==
    IF seqs = <<>> THEN acc
    ELSE StringSequences(
             Collect(acc, StringLoop([tes |-> acc.tes, line |-> <<>>,
                                      conf |-> <<>>, starts |-> <<>>, i |-> 0],
                                     Head(seqs))),
             Tail(seqs))

_line_sequences2string_sequences(T, seqs) ==
    StringSequences([tes |-> T, input_lines |-> <<>>, conf |-> <<>>,
                     starts |-> <<>>], seqs)

---------------------------------------------------------------------------
(* ANNCorrection.process *)

Init ==
    \E lvl \in Levels : \E ps \in PageShapes(lvl) :
        \E h \in {BuildPage(lvl, ps)} :
            /\ pc = "read"
            /\ level = lvl
            /\ tes = h.tes /\ gls = h.gls /\ wds = h.wds /\ lns = h.lns
            /\ rgn = [TextLine |-> [l \in 1..Len(h.lns) |-> l],
                      TextEquiv |-> <<Len(h.tes)>>]
            /\ orig = [tes |-> h.tes, lns |-> h.lns]
            /\ line_sequences = <<>> /\ input_lines = <<>> /\ conf = <<>>
            /\ starts = <<>> /\ output_lines = <<>> /\ output_probs = <<>>
            /\ alignments = <<>> /\ n = 0
            /\ alignment = <<>> /\ i_max = 0 /\ j_max = 0 /\ min_score = 0
            /\ realignment = <<>> /\ new_sequence = <<>> /\ rs_i = 0
            /\ err = "none" /\ log = <<>>

\* line 117
GetLineSequences ==
    /\ pc = "read"
    /\ \E r \in {_page_get_line_sequences_at} :
           /\ tes' = r.tes
           /\ line_sequences' = r.seqs
           /\ orig' = [orig EXCEPT !.tes = r.tes]
    /\ pc' = "flat"
    /\ UNCHANGED <<level, gls, wds, lns, rgn, input_lines, conf, starts,
                   output_lines, output_probs, alignments, n, alignment,
                   i_max, j_max, min_score, realignment, new_sequence, rs_i,
                   err, log>>

\* lines 120-121
StringSequencesCall ==
    /\ pc = "flat"
    /\ \E r \in {_line_sequences2string_sequences(tes, line_sequences)} :
           /\ tes' = r.tes
           /\ input_lines' = r.input_lines
           /\ conf' = r.conf
           /\ starts' = r.starts
    /\ pc' = "strings"
    /\ UNCHANGED <<level, gls, wds, lns, rgn, line_sequences, output_lines,
                   output_probs, alignments, n, alignment, i_max, j_max,
                   min_score, realignment, new_sequence, rs_i, err, orig, log>>

---------------------------------------------------------------------------
(* Sequence2Sequence.correct_lines (lib.seq2seq) is given by its results:  *)
(* the corrected line is the input line with some of its characters        *)
(* edited, the soft alignment scores an output character 1 against the     *)
(* input character it stems from and 0 elsewhere, and the probability of   *)
(* an output character tells whether it stems from an edited character.    *)

Ops == {"del", "subX", "preS", "postS", "preX", "postX"}

\* the edits of a character: whitespace may be deleted, replaced by or
\* joined with a letter; a letter may be deleted, replaced or joined with
\* a space
OpsFor(c) ==
    IF IsWs(c) THEN {"del", "subX", "preX", "postX"}
    ELSE {"del", "subX", "preS", "postS"}

Replace(c, op) ==
    CASE op = "del"   -> <<>>
      [] op = "subX"  -> <<"x">>
      [] op = "preS"  -> <<SP, c>>
      [] op = "postS" -> <<c, SP>>
      [] op = "preX"  -> <<"x", c>>
      [] op = "postX" -> <<c, "x">>

\* output probability of a character that was kept / that was edited
ProbKept == <<9, 10>>
ProbEdited == <<1, 2>>

\* the (line, offset) pairs of the characters of the given lines
Positions(lines) ==
    UNION {{<<l, p>> : p \in 1..Len(lines[l])} : l \in 1..Len(lines)}

\* the ways to edit at most MaxEdits characters of the given lines
Edits(lines) ==
    UNION {{ed \in [E -> Ops] :
               \A e \in E : ed[e] \in OpsFor(lines[e[1]][e[2]])} :
           E \in {E \in SUBSET Positions(lines) : Cardinality(E) <= MaxEdits}}

\* what becomes of character p of line l
Edited(lines, ed, l, p) ==
    IF <<l, p>> \in DOMAIN ed THEN Replace(lines[l][p], ed[<<l, p>>])
    ELSE <<lines[l][p]>>

\* the results of correct_lines for line l
Corrected(lines, ed, l) ==
    LET I   == Len(lines[l])
        out == Flat([p \in 1..I |-> Edited(lines, ed, l, p)])
        prb == Flat([p \in 1..I |->
                        [m \in 1..Len(Edited(lines, ed, l, p)) |->
                            IF <<l, p>> \in DOMAIN ed THEN ProbEdited
                            ELSE ProbKept]])
        src == Flat([p \in 1..I |->
                        [m \in 1..Len(Edited(lines, ed, l, p)) |-> p - 1]])
    IN  [output_line |-> out,
         output_prob |-> prb,
         alignment   |-> [j \in 0..(Len(out) - 1) |->
                             [i \in 0..(I - 1) |->
                                 IF src[j + 1] = i THEN 1 ELSE 0]]]

\* lines 125-128
CorrectLines ==
    /\ pc = "strings"
    /\ \E ed \in Edits(input_lines) :
           \E r \in {[l \in 1..Len(input_lines) |->
                          Corrected(input_lines, ed, l)]} :
               /\ output_lines' = [l \in 1..Len(input_lines) |-> r[l].output_line]
               /\ output_probs' = [l \in 1..Len(input_lines) |-> r[l].output_prob]
               /\ alignments' = [l \in 1..Len(input_lines) |-> r[l].alignment]
    /\ n' = 1
    /\ pc' = "loop"
    /\ UNCHANGED <<level, tes, gls, wds, lns, rgn, line_sequences,
                   input_lines, conf, starts, alignment, i_max, j_max,
                   min_score, realignment, new_sequence, rs_i, err, orig, log>>

\* lines 131-141: the next line of the page; np.zeros((i_max, 0)) cannot be
\* indexed at line 327-330, so an empty output line ends process
Align ==
    /\ pc = "loop"
    /\ n <= Len(input_lines)
    /\ alignment' = alignments[n]
    /\ i_max' = Len(input_lines[n])
    /\ j_max' = Len(output_lines[n])
    /\ min_score' = 0
    /\ IF Len(output_lines[n]) = 0
       THEN /\ pc' = "aborted"
            /\ err' = "IndexError"
            /\ UNCHANGED realignment
       ELSE /\ pc' = "aligned"
            /\ realignment' = _alignment2path(alignments[n], Len(input_lines[n]),
                                              Len(output_lines[n]), 0)
            /\ UNCHANGED err
    /\ UNCHANGED <<level, tes, gls, wds, lns, rgn, line_sequences,
                   input_lines, conf, starts, output_lines, output_probs,
                   alignments, n, new_sequence, rs_i, orig, log>>

---------------------------------------------------------------------------
(* _update_sequence *)

\* the number of leading / trailing characters c of s with (c \in S) = in
Lead(s, S, in) ==
    CHOOSE m \in 0..Len(s) :
        /\ \A k \in 1..m : (s[k] \in S) = in
        /\ m = Len(s) \/ (s[m + 1] \in S) # in

Trail(s, S, in) ==
    CHOOSE m \in 0..Len(s) :
        /\ \A k \in (Len(s) - m + 1)..Len(s) : (s[k] \in S) = in
        /\ m = Len(s) \/ (s[Len(s) - m] \in S) # in

\* the number of characters up to the last non-whitespace character of s
UpToLastNonWs(s) == Len(s) - Trail(s, {SP, NL}, TRUE)

\* lines 399, 409, 416 adding to the first TextEquiv of the page instead of
\* sequence[-1][0]
MoveLeft_FirstOfPage(T, seq, moved) ==
    IF moved = <<>> THEN T
    ELSE [T EXCEPT ![1].Unicode = @ \o moved]

\* sequence[-1][0].Unicode += moved
MoveLeft(T, seq, moved) ==
    IF moved = <<>> THEN T
    ELSE [T EXCEPT ![seq[Len(seq)].te].Unicode = @ \o moved]

\* lines 397-412: the input segment is whitespace; non-whitespace at the
\* start of the output moves to the element before, non-whitespace at its
\* end is left to the element after, what is still there moves before
WsBranch(output_line, T, seq, l1, j) ==
    LET o0 == Slice(output_line, l1, j)
        m1 == IF o0 # <<>> /\ ~IsWs(o0[1]) /\ seq # <<>>
              THEN Lead(o0, {SP, NL}, FALSE) ELSE 0
        a  == l1 + m1
        o1 == Slice(output_line, a, j)
        j2 == IF o1 # <<>> /\ ~IsWs(o1[Len(o1)])
              THEN j - Trail(o1, {SP}, FALSE) ELSE j
        o2 == Slice(output_line, a, j2)
        m3 == IF HasNonWs(o2) /\ seq # <<>> THEN UpToLastNonWs(o2) ELSE 0
    IN  [tes   |-> MoveLeft(MoveLeft(T, seq, Slice(o0, 0, m1)),
                            seq, Slice(o2, 0, m3)),
         last1  |-> a + m3,
         j      |-> j2,
         output |-> Slice(output_line, a + m3, j2)]

\* lines 414-424 with line 422 left out: the whitespace at the end of the
\* output is cut off, but j stays
NonWsBranch_KeepJ(input_line, output_line, T, seq, l1, i, j) ==
    LET o0 == Slice(output_line, l1, j)
        m1 == IF /\ o0 # <<>> /\ o0[1] = SP
                 /\ seq # <<>> /\ T[seq[Len(seq)].te].index = -1
              THEN Lead(o0, {SP}, TRUE) ELSE 0
        a  == l1 + m1
        o1 == Slice(output_line, a, j)
        m2 == IF /\ o1 # <<>> /\ IsWs(o1[Len(o1)])
                 /\ i < Len(input_line) /\ IsWs(input_line[i + 1])
              THEN Trail(o1, {SP, NL}, TRUE) ELSE 0
    IN  [tes    |-> MoveLeft(T, seq, Slice(o0, 0, m1)),
         last1  |-> a,
         j      |-> j,
         output |-> Slice(output_line, a, j - m2)]

\* lines 414-424: the input segment is no whitespace; spaces at the start
\* of the output move to a whitespace element before, whitespace at its end
\* is left to a whitespace element after
NonWsBranch(input_line, output_line, T, seq, l1, i, j) ==
    LET o0 == Slice(output_line, l1, j)
        m1 == IF /\ o0 # <<>> /\ o0[1] = SP
                 /\ seq # <<>> /\ T[seq[Len(seq)].te].index = -1
              THEN Lead(o0, {SP}, TRUE) ELSE 0
        a  == l1 + m1
        o1 == Slice(output_line, a, j)
        m2 == IF /\ o1 # <<>> /\ IsWs(o1[Len(o1)])
                 /\ i < Len(input_line) /\ IsWs(input_line[i + 1])
              THEN Trail(o1, {SP, NL}, TRUE) ELSE 0
    IN  [tes    |-> MoveLeft(T, seq, Slice(o0, 0, m1)),
         last1  |-> a,
         j      |-> j - m2,
         output |-> Slice(output_line, a, j - m2)]

\* line 433 keeping the confidence the element had
SpanConf_Keep(old, prob) == old

\* lines 432-433: np.mean(prob or [1.0])
SpanConf(old, prob) == IF prob = <<>> THEN One ELSE Mean(prob)

\* the keys of textequivs in insertion order: the start positions, then
\* i_max (line 375)
KeyAt(a, k) == IF k <= Len(a.textequivs) THEN a.textequivs[k].pos
               ELSE Len(a.input_line)

\* lines 426-437: the element e gets the output r has left to it, and
\* joins the sequence
Store(a, st, e, input_, i, r) ==
    IF r.tes[e.te].Unicode # input_
    THEN [st EXCEPT !.tes = r.tes, !.err = "mismatch"]
    ELSE [tes  |-> [r.tes EXCEPT
                       ![e.te].Unicode = r.output,
                       ![e.te].conf =
                           SpanConf(@, Slice(a.output_prob, r.last1, r.j))],
          seq  |-> Append(st.seq, [te |-> e.te, word |-> e.word,
                                   line |-> e.line]),
          last |-> <<i, r.j>>,
          err  |-> "none"]

\* lines 379-437; st.last is <<>> for None
RECURSIVE UpdateLoop(_, _, _)
UpdateLoop(a, st, k) ==
    IF k > Len(a.textequivs) + 1 \/ st.err # "none" THEN st
    ELSE
    LET i == KeyAt(a, k)
        j == IF i \in DOMAIN a.realignment THEN a.realignment[i]
             ELSE st.last[2]
    IN  IF st.last = <<>>
        THEN UpdateLoop(a, [st EXCEPT !.last = <<i, j>>], k + 1)
        ELSE
        LET input_ == Slice(a.input_line, st.last[1], i)
        IN  UpdateLoop(a,
                Store(a, st, a.textequivs[k - 1], input_, i,
                      IF input_ \in {<<SP>>, <<NL>>}
                      THEN WsBranch(a.output_line, st.tes, st.seq,
                                    st.last[2], j)
                      ELSE NonWsBranch(a.input_line, a.output_line, st.tes,
                                       st.seq, st.last[2], i, j)),
                k + 1)

\* lines 441-444 left out
Lost_Unchecked(T, seq) == FALSE

\* lines 441-444: some whitespace element has got non-whitespace content
Lost(T, seq) ==
    \E k \in 1..Len(seq) : HasNonWs(T[seq[k].te].Unicode) /\ T[seq[k].te].index = -1

\* lines 438-444: the assertions after the loop
Asserted(st, input_line, output_line) ==
    IF st.err # "none" THEN st
    ELSE IF st.last # <<Len(input_line), Len(output_line)>>
    THEN [st EXCEPT !.err = "top"]
    ELSE IF Lost(st.tes, st.seq)
    THEN [st EXCEPT !.err = "lost"]
    ELSE st

\* lines 352-445: the TextEquiv heap afterwards, the sequence, and the
\* assertion that failed
_update_sequence(T, input_line, output_line, output_prob, path, textequivs) ==
    Asserted(UpdateLoop([input_line |-> input_line,
                         output_line |-> output_line,
                         output_prob |-> output_prob, realignment |-> path,
                         textequivs |-> textequivs],
                        [tes |-> T, seq |-> <<>>, last |-> <<>>,
                         err |-> "none"], 1),
             input_line, output_line)

\* lines 144-147
UpdateSequence ==
    /\ pc = "aligned"
    /\ \E st \in {_update_sequence(tes, input_lines[n], output_lines[n],
                                   output_probs[n], realignment, starts[n])} :
           /\ tes' = st.tes
           /\ err' = st.err
           /\ IF st.err = "none"
              THEN new_sequence' = st.seq /\ pc' = "updated"
              ELSE new_sequence' = new_sequence /\ pc' = "aborted"
    /\ rs_i' = 0
    /\ UNCHANGED <<level, gls, wds, lns, rgn, line_sequences, input_lines,
                   conf, starts, output_lines, output_probs, alignments, n,
                   alignment, i_max, j_max, min_score, realignment, orig, log>>

---------------------------------------------------------------------------
(* _resegment_sequence, one entry of enumerate(sequence) at a time.  The   *)
(* objects it changes are h = [tes, wds, lns, log].                        *)

\* Python sequence[k]: a negative index counts from the end
SeqAt(seq, k) == seq[Wrap(k, Len(seq)) + 1]

\* bool(conf) of a confidence: None and 0.0 are false
Truthy(c) == c # NoConf /\ c[1] # 0

\* lines 503-523; the merged Word is the last of h.wds afterwards.  It
\* shares the TextEquiv objects of prev_, which line 520-522 change.
_merge_words(h, prev_, next_) ==
    LET p    == h.wds[prev_]
        nx   == h.wds[next_]
        tes1 == IF p.TextEquiv # <<>> THEN h.tes
                ELSE Append(h.tes, [Unicode |-> <<>>, conf |-> One, index |-> 0])
        mte  == IF p.TextEquiv # <<>> THEN p.TextEquiv ELSE <<Len(tes1)>>
        tes2 == IF nx.TextEquiv = <<>> THEN tes1
                ELSE LET t2 == tes1[nx.TextEquiv[1]]
                     IN  [tes1 EXCEPT
                             ![mte[1]].Unicode = @ \o t2.Unicode,
                             ![mte[1]].conf = IF Truthy(@) /\ Truthy(t2.conf)
                                              THEN RMul(@, t2.conf) ELSE @]
    IN  [h EXCEPT !.tes = tes2,
                  !.wds = Append(@, [Glyph |-> p.Glyph \o nx.Glyph,
                                     TextEquiv |-> mte])]

\* lines 472-474
MergeInList(words, prev_, next_, merged) ==
    LET kept == SelectSeq(words, LAMBDA w : w # next_)
    IN  [k \in 1..Len(kept) |-> IF kept[k] = prev_ THEN merged ELSE kept[k]]

\* list.index(x), 0-based
IndexOf(s, x) == CHOOSE k \in 0..(Len(s) - 1) :
                     s[k + 1] = x /\ \A m \in 1..k : s[m] # x

\* lines 525-550; the new Words are the last two of h.wds afterwards
_split_word_at_glyph(h, word, glyph) ==
    LET glyphs == h.wds[word].Glyph
        pos    == IndexOf(glyphs, glyph)
        prev_  == [Glyph |-> Slice(glyphs, 0, pos), TextEquiv |-> <<>>]
        next_  == [Glyph |-> Slice(glyphs, pos + 1, Len(glyphs)),
                   TextEquiv |-> <<>>]
        wds2   == h.wds \o <<prev_, next_>>
    IN  [h |-> [h EXCEPT !.wds = wds2],
         prev_ |-> Len(wds2) - 1, next_ |-> Len(wds2)]

\* lines 552-581; the new Words are the last two of h.wds afterwards
_split_word_at_space(h, word) ==
    LET textequiv == h.tes[h.wds[word].TextEquiv[1]]
        u      == textequiv.Unicode
        pos    == IndexOf(u, SP)
        tes2   == h.tes \o <<NewTe(Slice(u, 0, pos), textequiv.conf),
                             NewTe(Slice(u, pos + 1, Len(u)), textequiv.conf)>>
        wds2   == h.wds \o <<[Glyph |-> <<>>, TextEquiv |-> <<Len(tes2) - 1>>],
                             [Glyph |-> <<>>, TextEquiv |-> <<Len(tes2)>>]>>
    IN  [h |-> [h EXCEPT !.tes = tes2, !.wds = wds2],
         prev_ |-> Len(wds2) - 1, next_ |-> Len(wds2)]

\* " " in s
HasSpace(s) == \E k \in 1..Len(s) : s[k] = SP

\* lines 487-496
RECURSIVE SplitLoop(_, _, _)
SplitLoop(h, next_, parts) ==
    LET r == _split_word_at_space(h, next_)
    IN  IF HasSpace(r.h.tes[r.h.wds[r.next_].TextEquiv[1]].Unicode)
        THEN SplitLoop(r.h, r.next_, Append(parts, r.prev_))
        ELSE [h |-> r.h, parts |-> parts \o <<r.prev_, r.next_>>]

\* lines 499-501
SplitInList(words, word, parts) ==
    Flat([k \in 1..Len(words) |->
             IF words[k] = word THEN parts ELSE <<words[k]>>])

\* line 459 testing the end of the line only
AtEdge_EndOnly(i, len) == i = len - 1

\* line 459
AtEdge(i, len) == i = 0 \/ i = len - 1

\* lines 456-501 for entry i of sequence
ResegmentEntry(h, lvl, sequence, i) ==
    LET e         == sequence[i + 1]
        textequiv == h.tes[e.te]
    IN  IF textequiv.index = -1
        THEN IF textequiv.Unicode # <<>> THEN h
             ELSE IF AtEdge(i, Len(sequence))
             THEN [h EXCEPT !.log = Append(@, "merge_edge")]
             ELSE LET prev_word == SeqAt(sequence, i - 1).word
                      next_word == SeqAt(sequence, i + 1).word
                  IN  IF prev_word = 0 \/ next_word = 0
                      THEN [h EXCEPT !.log = Append(@, "merge_noword")]
                      ELSE LET h2 == _merge_words(h, prev_word, next_word)
                           IN  [h2 EXCEPT !.lns[e.line].Word =
                                   MergeInList(@, prev_word, next_word,
                                               Len(h2.wds))]
        ELSE IF ~HasSpace(textequiv.Unicode) THEN h
        ELSE IF e.word = 0
        THEN [h EXCEPT !.log = Append(@, "split_noword")]
        ELSE IF lvl = "glyph"
        THEN LET gs    == h.wds[e.word].Glyph
                 glyph == gs[CHOOSE k \in 1..Len(gs) :
                                /\ \E m \in 1..Len(gls[gs[k]].TextEquiv) :
                                       gls[gs[k]].TextEquiv[m] = e.te
                                /\ \A k2 \in 1..(k - 1) :
                                       \A m \in 1..Len(gls[gs[k2]].TextEquiv) :
                                           gls[gs[k2]].TextEquiv[m] # e.te]
                 r     == _split_word_at_glyph(h, e.word, glyph)
             IN  [r.h EXCEPT !.lns[e.line].Word =
                     SplitInList(@, e.word, <<r.prev_, r.next_>>)]
        ELSE LET r == SplitLoop(h, e.word, <<>>)
             IN  [r.h EXCEPT !.lns[e.line].Word =
                     SplitInList(@, e.word, r.parts)]

\* lines 455-501: the entries from i on
RECURSIVE ResegmentFrom(_, _, _, _)
ResegmentFrom(h, lvl, sequence, i) ==
    IF i >= Len(sequence) THEN h
    ELSE ResegmentFrom(ResegmentEntry(h, lvl, sequence, i), lvl, sequence,
                       i + 1)

\* lines 150-151, 455: the next entry of the sequence
ResegmentStep ==
    /\ pc = "updated"
    /\ level # "line"
    /\ rs_i < Len(new_sequence)
    /\ \E h \in {ResegmentEntry([tes |-> tes, wds |-> wds, lns |-> lns,
                                 log |-> log], level, new_sequence, rs_i)} :
           /\ tes' = h.tes
           /\ wds' = h.wds
           /\ lns' = h.lns
           /\ log' = h.log
    /\ rs_i' = rs_i + 1
    /\ UNCHANGED <<pc, level, gls, rgn, line_sequences, input_lines, conf,
                   starts, output_lines, output_probs, alignments, n,
                   alignment, i_max, j_max, min_score, realignment,
                   new_sequence, err, orig>>

\* lines 131, 153: the line is done
EndLine ==
    /\ pc = "updated"
    /\ level = "line" \/ rs_i = Len(new_sequence)
    /\ n' = n + 1
    /\ pc' = "loop"
    /\ UNCHANGED <<level, tes, gls, wds, lns, rgn, line_sequences,
                   input_lines, conf, starts, output_lines, output_probs,
                   alignments, alignment, i_max, j_max, min_score,
                   realignment, new_sequence, rs_i, err, orig, log>>

---------------------------------------------------------------------------
(* page_update_higher_textequiv_levels; h = [tes, wds, lns] *)

\* x.get_TextEquiv()[0].Unicode if x.get_TextEquiv() else u''
UnicodeOr(T, obj) ==
    IF obj.TextEquiv = <<>> THEN <<>> ELSE T[obj.TextEquiv[1]].Unicode

\* x.get_TextEquiv()[0].conf if x.get_TextEquiv() else 1.
ConfOr(T, obj) ==
    IF obj.TextEquiv = <<>> THEN One ELSE T[obj.TextEquiv[1]].conf

\* lines 599-608: the Word gets the text and the mean conf of its Glyphs
WordText(h, word) ==
    LET glyphs == h.wds[word].Glyph
    IN  [h EXCEPT
            !.tes = Append(@, NewTe(Flat([g \in 1..Len(glyphs) |->
                                             UnicodeOr(h.tes, gls[glyphs[g]])]),
                                    Mean([g \in 1..Len(glyphs) |->
                                             ConfOr(h.tes, gls[glyphs[g]])]))),
            !.wds[word].TextEquiv = <<Len(h.tes) + 1>>]

\* lines 598-608
RECURSIVE UpdateWords(_, _)
UpdateWords(h, words) ==
    IF words = <<>> THEN h
    ELSE UpdateWords(WordText(h, Head(words)), Tail(words))

\* lines 609-617 with the Words' texts joined without the space
LineText_NoSpace(h, line) ==
    LET words == h.lns[line].Word
    IN  [h EXCEPT
            !.tes = Append(@, NewTe(Flat([w \in 1..Len(words) |->
                                             UnicodeOr(h.tes, h.wds[words[w]])]),
                                    Mean([w \in 1..Len(words) |->
                                             ConfOr(h.tes, h.wds[words[w]])]))),
            !.lns[line].TextEquiv = <<Len(h.tes) + 1>>]

\* lines 596, 609-617: the TextLine gets the text and the mean conf of its Words
LineText(h, line) ==
    LET words == h.lns[line].Word
    IN  [h EXCEPT
            !.tes = Append(@, NewTe(Join(SP, [w \in 1..Len(words) |->
                                             UnicodeOr(h.tes, h.wds[words[w]])]),
                                    Mean([w \in 1..Len(words) |->
                                             ConfOr(h.tes, h.wds[words[w]])]))),
            !.lns[line].TextEquiv = <<Len(h.tes) + 1>>]

\* lines 595-617
RECURSIVE UpdateLines(_, _, _)
UpdateLines(h, lvl, lines) ==
    IF lines = <<>> THEN h
    ELSE UpdateLines(
             LineText(IF lvl # "word"
                      THEN UpdateWords(h, h.lns[Head(lines)].Word) ELSE h,
                      Head(lines)),
             lvl, Tail(lines))

\* lines 618-626: the region gets the text and the mean conf of its TextLines
RegionText(h, lines) ==
    [h EXCEPT
        !.tes = Append(@, NewTe(Join(NL, [l \in 1..Len(lines) |->
                                         UnicodeOr(h.tes, h.lns[lines[l]])]),
                                Mean([l \in 1..Len(lines) |->
                                         ConfOr(h.tes, h.lns[lines[l]])])))]

\* lines 583-626 for the page's one region
page_update_higher_textequiv_levels(h, lvl) ==
    RegionText(IF lvl # "line" THEN UpdateLines(h, lvl, rgn.TextLine) ELSE h,
               rgn.TextLine)

\* line 156, after the last line
Propagate ==
    /\ pc = "loop"
    /\ n > Len(input_lines)
    /\ \E h \in {page_update_higher_textequiv_levels(
                     [tes |-> tes, wds |-> wds, lns |-> lns], level)} :
           /\ tes' = h.tes
           /\ wds' = h.wds
           /\ lns' = h.lns
           /\ rgn' = [rgn EXCEPT !.TextEquiv = <<Len(h.tes)>>]
    /\ pc' = "done"
    /\ UNCHANGED <<level, gls, line_sequences, input_lines, conf, starts,
                   output_lines, output_probs, alignments, n, alignment,
                   i_max, j_max, min_score, realignment, new_sequence, rs_i,
                   err, orig, log>>

Next ==
    \/ GetLineSequences
    \/ StringSequencesCall
    \/ CorrectLines
    \/ Align
    \/ UpdateSequence
    \/ ResegmentStep
    \/ EndLine
    \/ Propagate

Spec == Init /\ [][Next]_vars

---------------------------------------------------------------------------
(* _alignment2path called on its own, for every small matrix. *)

NoPage ==
    /\ level = "none" /\ tes = <<>> /\ gls = <<>> /\ wds = <<>> /\ lns = <<>>
    /\ rgn = [TextLine |-> <<>>, TextEquiv |-> <<>>]
    /\ line_sequences = <<>> /\ input_lines = <<>>
    /\ conf = <<>> /\ starts = <<>> /\ output_lines = <<>>
    /\ output_probs = <<>> /\ alignments = <<>> /\ n = 0
    /\ new_sequence = <<>> /\ rs_i = 0 /\ err = "none"
    /\ orig = [tes |-> <<>>, lns |-> <<>>]
    /\ log = <<>>

InitAlign ==
    /\ NoPage
    /\ pc = "call"
    /\ i_max \in 1..MaxI
    /\ j_max \in 1..MaxJ
    /\ i_max * j_max <= MaxCells
    /\ min_score \in 0..(MaxScore - 1)
    /\ alignment \in [0..(j_max - 1) -> [0..(i_max - 1) -> 0..MaxScore]]
    /\ realignment = <<>>

AlignCall ==
    /\ pc = "call"
    /\ realignment' = _alignment2path(alignment, i_max, j_max, min_score)
    /\ pc' = "return"
    /\ UNCHANGED <<level, tes, gls, wds, lns, rgn, line_sequences,
                   input_lines, conf, starts, output_lines, output_probs,
                   alignments, n, alignment, i_max, j_max, min_score,
                   new_sequence, rs_i, err, orig, log>>

NextAlign == AlignCall

SpecAlign == InitAlign /\ [][NextAlign]_vars

---------------------------------------------------------------------------
(* Claims about _alignment2path. *)

Returned == pc = "return"

\* C1: the returned path is non-decreasing in the output offset as the
\* input offset increases, all its values lie within 0..j_max, and it
\* holds path[0] = 0 and path[i_max] = j_max.
C1_PathMonotoneWithEndpoints ==
    Returned =>
        /\ \A a, b \in DOMAIN realignment :
               a <= b => realignment[a] <= realignment[b]
        /\ \A a \in DOMAIN realignment : realignment[a] \in 0..j_max
        /\ 0 \in DOMAIN realignment /\ realignment[0] = 0
        /\ i_max \in DOMAIN realignment /\ realignment[i_max] = j_max

\* the backward pass has visited cells beyond the two forced endpoints and
\* the path rises strictly somewhere in between
C1_Witness ==
    /\ Returned
    /\ i_max = 3 /\ j_max = 3
    /\ DOMAIN realignment = 0..3
    /\ realignment[1] = 1 /\ realignment[2] = 1

\* C2 as stated: the path is a total mapping, every input offset 0..i_max
\* has an entry.
C2_PathTotal ==
    Returned => DOMAIN realignment = 0..i_max

\* C2 as amended: the path is a partial mapping.  Its keys lie within
\* 0..i_max and always include 0 and i_max, its values lie within 0..j_max,
\* and the keys other than the two forced ends are one contiguous run (the
\* input offsets the backward pass has visited); the other offsets have no
\* entry.
C2_PathPartial ==
    Returned =>
        /\ DOMAIN realignment \subseteq 0..i_max
        /\ {0, i_max} \subseteq DOMAIN realignment
        /\ \A a \in DOMAIN realignment : realignment[a] \in 0..j_max
        /\ \A a, b \in DOMAIN realignment \ {0, i_max} :
               \A c \in a..b : c \in DOMAIN realignment

\* a path that has visited offset 2 but has no entry for offset 1
C2_Witness ==
    /\ Returned
    /\ i_max = 3
    /\ DOMAIN realignment = {0, 2, 3}

---------------------------------------------------------------------------
(* Claims about _update_sequence. *)

\* _update_sequence has returned for line n and _resegment_sequence has not
\* looked at an entry yet
Updated == pc = "updated" /\ rs_i = 0

\* the TextEquiv of entry k of the sequence of line n
SpanOf(k) == tes[new_sequence[k].te]

\* the input segment of element k of line n
SpanStart(k) == starts[n][k].pos
SpanEnd(k) ==
    IF k < Len(starts[n]) THEN starts[n][k + 1].pos ELSE Len(input_lines[n])

\* the corrected line is the input line and every output character is
\* aligned with the input character at the same offset
IdentityRun ==
    /\ pc \in {"aligned", "updated", "aborted"}
    /\ output_lines[n] = input_lines[n]
    /\ alignment = [j \in 0..(j_max - 1) |->
                       [i \in 0..(i_max - 1) |-> IF i = j THEN 1 ELSE 0]]

NoOuterWs(u) == u = <<>> \/ (~IsWs(u[1]) /\ ~IsWs(u[Len(u)]))

\* C3 as stated: when the corrected line is identical to the input line,
\* with an identity alignment, the path is the identity and after
\* _update_sequence every span has the content and the confidence it had
\* before.
C3_Idempotent ==
    IdentityRun =>
        /\ pc # "aborted"
        /\ realignment = [i \in 0..i_max |-> i]
        /\ Updated =>
               \A k \in 1..Len(new_sequence) :
                   /\ SpanOf(k).Unicode = orig.tes[new_sequence[k].te].Unicode
                   /\ SpanOf(k).conf = orig.tes[new_sequence[k].te].conf

\* C3 as amended: when the corrected line is identical to the input line,
\* with an identity alignment, and no element of the page starts or ends
\* with whitespace, the path is the identity, _update_sequence returns
\* normally, and afterwards every span has its input segment as content
\* (the content it had before, or GAP where that was empty) and the mean of
\* the output probabilities over its segment as confidence.
C3_IdentityRun ==
    (/\ IdentityRun
     /\ \A l \in 1..Len(starts) : \A k \in 1..Len(starts[l]) :
            orig.tes[starts[l][k].te].index = -1
            \/ NoOuterWs(orig.tes[starts[l][k].te].Unicode)) =>
        /\ pc # "aborted"
        /\ realignment = [i \in 0..i_max |-> i]
        /\ Updated =>
               /\ Len(new_sequence) = Len(starts[n])
               /\ \A k \in 1..Len(new_sequence) :
                      LET before == orig.tes[new_sequence[k].te].Unicode
                      IN  /\ new_sequence[k].te = starts[n][k].te
                          /\ SpanOf(k).Unicode =
                                 Slice(input_lines[n], SpanStart(k), SpanEnd(k))
                          /\ SpanOf(k).Unicode =
                                 IF before = <<>> THEN <<GAP>> ELSE before
                          /\ SpanOf(k).conf =
                                 Mean(Slice(output_probs[n], SpanStart(k),
                                            SpanEnd(k)))

\* an identity run over a line that has an element that was empty and an
\* element whose confidence was not the output probability
C3_Witness ==
    /\ IdentityRun /\ Updated
    /\ \E k \in 1..Len(new_sequence) :
           orig.tes[new_sequence[k].te].Unicode = <<>>
    /\ \E k \in 1..Len(new_sequence) :
           /\ orig.tes[new_sequence[k].te].index # -1
           /\ orig.tes[new_sequence[k].te].conf # SpanOf(k).conf

\* C4: after _update_sequence has returned for a line, no element of the
\* document (index is not -1) has content that starts or ends with
\* whitespace.
C4_NoOuterWhitespace ==
    Updated =>
        \A k \in 1..Len(new_sequence) :
            SpanOf(k).index # -1 => NoOuterWs(SpanOf(k).Unicode)

\* the corrected line has a non-whitespace character that is aligned with
\* the input whitespace of element k
GotNonWs(k) ==
    \E j \in 0..(j_max - 1) :
        alignment[j][SpanStart(k)] = 1 /\ ~IsWs(output_lines[n][j + 1])

\* C5: whenever _update_sequence returns normally, no whitespace element
\* (index = -1) of the sequence has content with a non-whitespace
\* character; the "will be lost" assertion fails only when such an element
\* is there, and then process does not go on.
C5_NoLostContent ==
    /\ pc = "updated" =>
           \A k \in 1..Len(new_sequence) :
               SpanOf(k).index = -1 => ~HasNonWs(SpanOf(k).Unicode)
    /\ err = "lost" =>
           /\ pc = "aborted"
           /\ \E k \in 1..Len(starts[n]) :
                  /\ tes[starts[n][k].te].index = -1
                  /\ HasNonWs(tes[starts[n][k].te].Unicode)

\* a normal return where the correction has put a letter in the place of a
\* whitespace element, which is empty afterwards
C5_Witness ==
    /\ Updated
    /\ \E k \in 1..Len(new_sequence) :
           /\ new_sequence[k].te = starts[n][k].te
           /\ SpanOf(k).index = -1
           /\ GotNonWs(k)
           /\ SpanOf(k).Unicode = <<>>

\* C6: the lengths of the contents of the elements of a line add up to the
\* length of the input line before _update_sequence (an empty element
\* counting as its 1-character placeholder), and to the length of the
\* corrected line after a successful _update_sequence.
C6_LengthsAddUp ==
    /\ pc = "strings" =>
           \A l \in 1..Len(input_lines) :
               SumSeq([k \in 1..Len(starts[l]) |->
                          Len(tes[starts[l][k].te].Unicode)])
               = Len(input_lines[l])
    /\ Updated =>
           SumSeq([k \in 1..Len(new_sequence) |-> Len(SpanOf(k).Unicode)])
           = Len(output_lines[n])

\* a normal return for a line with an element that was empty, where the
\* correction has put a letter next to a whitespace that stays
C6_Witness ==
    /\ Updated
    /\ \E k \in 1..Len(new_sequence) :
           orig.tes[new_sequence[k].te].Unicode = <<>>
    /\ \E k \in 1..Len(new_sequence) :
           /\ new_sequence[k].te = starts[n][k].te
           /\ SpanOf(k).index = -1
           /\ GotNonWs(k)
           /\ SpanOf(k).Unicode # <<>>

---------------------------------------------------------------------------
(* Claims about _resegment_sequence. *)

\* _resegment_sequence has gone through the sequence of line n
Resegmented ==
    pc = "updated" /\ level # "line" /\ rs_i = Len(new_sequence)

\* the TextLine of the Words of line n, its Word list now and before
TheLine == new_sequence[1].line
WordsNow == lns[TheLine].Word
WordsBefore == orig.lns[TheLine].Word

\* the content of a Word; NoText when it has no TextEquiv
Content(w) ==
    IF wds[w].TextEquiv = <<>> THEN NoText
    ELSE tes[wds[w].TextEquiv[1]].Unicode

StripWs(s) == SelectSeq(s, LAMBDA c : ~IsWs(c))

\* no element of the document in the sequence contains a space: no split
NoSplitDue ==
    \A k \in 1..Len(new_sequence) :
        SpanOf(k).index # -1 => ~HasSpace(SpanOf(k).Unicode)

\* no whitespace element of the sequence is empty: no merge
NoMergeDue ==
    \A k \in 1..Len(new_sequence) :
        SpanOf(k).index = -1 => SpanOf(k).Unicode # <<>>

\* the whitespace elements that became empty with an element on both sides
MergesDue ==
    {k \in 2..(Len(new_sequence) - 1) :
        SpanOf(k).index = -1 /\ SpanOf(k).Unicode = <<>>}

\* C7: at word level, in a line whose Words all have content, for every
\* whitespace element that became empty and has a Word on both sides, the
\* two Words are replaced by one merged Word with the concatenation of
\* their contents, also when several whitespace elements of the line are
\* deleted: the Word list gets shorter by one per merge, and its contents
\* together are the non-whitespace of the corrected line.
C7_MergeKeepsContent ==
    (/\ Resegmented /\ level = "word" /\ NoSplitDue
     /\ \A k \in 1..Len(WordsBefore) : wds[WordsBefore[k]].TextEquiv # <<>>) =>
        /\ Len(WordsNow) = Len(WordsBefore) - Cardinality(MergesDue)
        /\ StripWs(Flat([k \in 1..Len(WordsNow) |->
                            IF Content(WordsNow[k]) = NoText THEN <<>>
                            ELSE Content(WordsNow[k])]))
           = StripWs(output_lines[n])

\* s.split()
RECURSIVE Tokens(_)
Tokens(s) ==
    IF s = <<>> THEN <<>>
    ELSE IF IsWs(s[1]) THEN Tokens(Tail(s))
    ELSE LET m == Lead(s, {SP, NL}, FALSE)
         IN  <<SubSeq(s, 1, m)>> \o Tokens(SubSeq(s, m + 1, Len(s)))

\* C8: at word level, a Word whose corrected content has internal spaces is
\* replaced in the Word list by as many Words as the content has
\* whitespace-separated tokens, in order, each with one token as content;
\* the other Words stay.
C8_SplitIntoTokens ==
    (/\ Resegmented /\ level = "word" /\ NoMergeDue
     /\ \A k \in 1..Len(new_sequence) :
            SpanOf(k).index # -1 => NoOuterWs(SpanOf(k).Unicode)) =>
        [k \in 1..Len(WordsNow) |-> Content(WordsNow[k])]
        = Flat([k \in 1..Len(WordsBefore) |->
                   IF HasSpace(Content(WordsBefore[k]))
                   THEN Tokens(Content(WordsBefore[k]))
                   ELSE <<Content(WordsBefore[k])>>])

\* C9: at glyph level, the Words that replace a Word split at a Glyph hold
\* all its Glyphs, in order: the Glyphs of the Word list are the same
\* before and after.
C9_SplitKeepsGlyphs ==
    (Resegmented /\ level = "glyph" /\ NoMergeDue) =>
        Flat([k \in 1..Len(WordsNow) |-> wds[WordsNow[k]].Glyph])
        = Flat([k \in 1..Len(WordsBefore) |-> wds[WordsBefore[k]].Glyph])

\* _resegment_sequence is about to look at a whitespace element that became
\* empty and is the first or last entry of the sequence, or has a
\* neighbouring entry without a Word
EmptiedAtEdge ==
    /\ pc = "updated" /\ level # "line" /\ rs_i < Len(new_sequence)
    /\ SpanOf(rs_i + 1).index = -1
    /\ SpanOf(rs_i + 1).Unicode = <<>>
    /\ \/ rs_i = 0
       \/ rs_i = Len(new_sequence) - 1
       \/ new_sequence[rs_i].word = 0
       \/ new_sequence[rs_i + 2].word = 0

\* C10: for such an entry _resegment_sequence does no merge; the Word
\* lists, the Words and every content stay as they are, and one error is
\* logged.
C10_NoMergeAtEdge ==
    [][EmptiedAtEdge =>
          /\ lns' = lns /\ wds' = wds /\ gls' = gls /\ tes' = tes
          /\ log' = Append(log, "merge_edge")
             \/ log' = Append(log, "merge_noword")]_vars

\* a line whose first and last whitespace elements have both been emptied
\* and looked at
C10_Witness ==
    /\ Resegmented
    /\ log = <<"merge_edge", "merge_edge">>
    /\ SpanOf(1).index = -1 /\ SpanOf(1).Unicode = <<>>
    /\ SpanOf(Len(new_sequence)).index = -1
    /\ SpanOf(Len(new_sequence)).Unicode = <<>>
    /\ WordsNow = WordsBefore

---------------------------------------------------------------------------
(* Claims about page_update_higher_textequiv_levels. *)

\* the step that is the call of page_update_higher_textequiv_levels
Propagating == pc = "loop" /\ pc' = "done"

\* obj has exactly one TextEquiv, which T did not hold
OneFresh(T, obj) == Len(obj.TextEquiv) = 1 /\ obj.TextEquiv[1] > Len(T)

\* C11: the call of page_update_higher_textequiv_levels gives every level
\* above the processing level exactly one new TextEquiv: a Word the
\* concatenation of its Glyphs' contents ('' for a Glyph without TextEquiv),
\* a TextLine its Words' contents joined by a space, the region its
\* TextLines' contents joined by a newline; every TextEquiv that was there,
\* and the segmentation, stay as they are.
C11_FreshSpansAbove ==
    [][Propagating =>
          /\ \A k \in 1..Len(tes) : tes'[k] = tes[k]
          /\ gls' = gls
          /\ OneFresh(tes, rgn')
          /\ rgn'.TextLine = rgn.TextLine
          /\ tes'[rgn'.TextEquiv[1]].Unicode =
                 Join(NL, [l \in 1..Len(rgn.TextLine) |->
                              FirstUnicode(tes', lns'[rgn.TextLine[l]])])
          /\ level = "line" => lns' = lns /\ wds' = wds
          /\ level = "word" => wds' = wds
          /\ level # "line" =>
                 \A l \in 1..Len(lns) :
                     /\ OneFresh(tes, lns'[l])
                     /\ lns'[l].Word = lns[l].Word
                     /\ tes'[lns'[l].TextEquiv[1]].Unicode =
                            Join(SP, [w \in 1..Len(lns[l].Word) |->
                                         FirstUnicode(tes', wds'[lns[l].Word[w]])])
          /\ level = "glyph" =>
                 \A l \in 1..Len(lns) : \A w \in 1..Len(lns[l].Word) :
                     LET word == lns[l].Word[w]
                     IN  /\ OneFresh(tes, wds'[word])
                         /\ wds'[word].Glyph = wds[word].Glyph
                         /\ tes'[wds'[word].TextEquiv[1]].Unicode =
                                Flat([g \in 1..Len(wds[word].Glyph) |->
                                         FirstUnicode(tes', gls[wds[word].Glyph[g]])])
    ]_vars

\* after the call at glyph level: a TextLine of two Words or more, one of
\* them with a Glyph without TextEquiv and a Glyph with content
C11_Witness ==
    /\ pc = "done" /\ level = "glyph"
    /\ \E l \in 1..Len(lns) :
           /\ Len(lns[l].Word) >= 2
           /\ \E w \in 1..Len(lns[l].Word) :
                  LET word == wds[lns[l].Word[w]]
                  IN  /\ \E g \in 1..Len(word.Glyph) :
                             gls[word.Glyph[g]].TextEquiv = <<>>
                      /\ tes[word.TextEquiv[1]].Unicode # <<>>

\* the conf the claim gives a node whose children have the confs s
MeanOrOne(s) == IF s = <<>> THEN One ELSE Mean(s)

\* the conf of the one TextEquiv of obj
ConfNow(obj) == tes[obj.TextEquiv[1]].conf

\* C12: after page_update_higher_textequiv_levels the conf of every node
\* above the processing level is the arithmetic mean of the confs of its
\* children (1.0 for a child without TextEquiv), and 1.0 for a node without
\* children; it is never nan.
C12_MeanConf ==
    pc = "done" =>
        /\ ConfNow(rgn) # NaN
        /\ ConfNow(rgn) =
               MeanOrOne([l \in 1..Len(rgn.TextLine) |->
                             ConfOr(tes, lns[rgn.TextLine[l]])])
        /\ level # "line" =>
               \A l \in 1..Len(lns) :
                   /\ ConfNow(lns[l]) # NaN
                   /\ ConfNow(lns[l]) =
                          MeanOrOne([w \in 1..Len(lns[l].Word) |->
                                        ConfOr(tes, wds[lns[l].Word[w]])])
        /\ level = "glyph" =>
               \A l \in 1..Len(lns) : \A w \in 1..Len(lns[l].Word) :
                   LET word == wds[lns[l].Word[w]]
                   IN  /\ ConfNow(word) # NaN
                       /\ ConfNow(word) =
                              MeanOrOne([g \in 1..Len(word.Glyph) |->
                                            ConfOr(tes, gls[word.Glyph[g]])])

---------------------------------------------------------------------------
(* Claims about process as a whole. *)

\* the step in which an assertion of _update_sequence fails for line n
AssertionFails ==
    pc = "aligned" /\ err' \in {"mismatch", "top", "lost"}

\* the contents of the elements of line l
LineContents(T, l) ==
    [k \in 1..Len(starts[l]) |-> T[starts[l][k].te].Unicode]

\* C13: an assertion of _update_sequence that fails for a line ends the
\* work on that line only: the elements of the line have the content they
\* had before the call, the elements of the other lines are as they were,
\* and process goes on to the remaining lines.
C13_AbortsLineOnly ==
    [][AssertionFails =>
          /\ LineContents(tes', n) = LineContents(tes, n)
          /\ \A l \in 1..Len(starts) :
                 l # n => LineContents(tes', l) = LineContents(tes, l)
          /\ pc' # "aborted"]_vars

\* the TextLine of line l of the input: that of its first element
TextLineOf(l) == starts[l][1].line

\* the elements of line l
Elements(T, l) == [k \in 1..Len(starts[l]) |-> T[starts[l][k].te]]

\* the Words of a Word list, with their contents
WordViews(T, W, words) ==
    [w \in 1..Len(words) |->
        [Glyph |-> W[words[w]].Glyph,
         TextEquiv |-> [t \in 1..Len(W[words[w]].TextEquiv) |->
                           T[W[words[w]].TextEquiv[t]]]]]

\* a step of _update_sequence or _resegment_sequence for line n leaves the
\* elements, the Word list and the Words of every other line as they are
OtherLinesStay ==
    pc \in {"aligned", "updated"} =>
        /\ \A l \in 1..Len(starts) :
               l # n => Elements(tes', l) = Elements(tes, l)
        /\ \A tl \in 1..Len(lns) :
               tl # TextLineOf(n) =>
                   /\ lns'[tl] = lns[tl]
                   /\ WordViews(tes', wds', lns[tl].Word)
                      = WordViews(tes, wds, lns[tl].Word)

\* the TextEquivs as they are when the loop over the lines begins
BeforeLoop == _line_sequences2string_sequences(orig.tes, line_sequences).tes

\* _resegment_sequence after _update_sequence has returned st, on the
\* Words W and the TextLines L
ResegmentOn(st, W, L) ==
    IF st.err # "none" \/ level = "line"
    THEN [tes |-> st.tes, wds |-> W, lns |-> L, err |-> st.err]
    ELSE [err |-> "none"] @@
         ResegmentFrom([tes |-> st.tes, wds |-> W, lns |-> L, log |-> <<>>],
                       level, st.seq, 0)

\* the work on line l, on the page a
WorkOn(a, l) ==
    ResegmentOn(
        _update_sequence(a.tes, input_lines[l], output_lines[l],
                         output_probs[l],
                         _alignment2path(alignments[l], Len(input_lines[l]),
                                         Len(output_lines[l]), 0),
                         starts[l]),
        a.wds, a.lns)

\* the work on line l, on the page as it is when the loop begins
Alone(l) == WorkOn([tes |-> BeforeLoop, wds |-> wds, lns |-> orig.lns], l)

\* the work on the second line can be done before that on the first
SecondFirst ==
    /\ Len(input_lines) = 2
    /\ Len(output_lines[2]) > 0
    /\ Alone(2).err = "none"

\* the work on line n is over: the line is done, or an assertion has failed
LineOver ==
    \/ pc = "updated" /\ (level = "line" \/ rs_i = Len(new_sequence))
    \/ pc = "aborted" /\ err # "IndexError"

\* line n is as a is
SameLine(a) ==
    /\ a.err = err
    /\ Elements(a.tes, n) = Elements(tes, n)
    /\ WordViews(a.tes, a.wds, a.lns[TextLineOf(n)].Word)
       = WordViews(tes, wds, lns[TextLineOf(n)].Word)

\* C14: the work on one line (_update_sequence, then _resegment_sequence)
\* changes elements, Words and the Word list of that line only; its result
\* for the second line of a page is the one it has when the first line has
\* not been worked on, and its result for the first line is the one it has
\* when the second line has been worked on before: the order of the lines
\* makes no difference.
C14_LinesIndependent ==
    /\ [][OtherLinesStay]_vars
    /\ [](LineOver /\ n = 2 => SameLine(Alone(2)))
    /\ [](LineOver /\ n = 1 /\ SecondFirst => SameLine(WorkOn(Alone(2), 1)))

\* the second line of a page is done, with a merge or a split in both lines
C14_Witness ==
    /\ pc = "updated" /\ level # "line" /\ rs_i = Len(new_sequence)
    /\ n = 2
    /\ lns[TextLineOf(1)].Word # orig.lns[TextLineOf(1)].Word
    /\ lns[TextLineOf(2)].Word # orig.lns[TextLineOf(2)].Word

\* the text of the TextLine of line l of the input
LineTextNow(l) == tes[lns[TextLineOf(l)].TextEquiv[1]].Unicode

\* C15: at word level, when process is through, the text of every line
\* that was corrected is, whitespace apart, the corrected line: no
\* non-whitespace character of the output is lost or doubled by the merges
\* and splits.
C15_ContentPreserved ==
    (pc = "done" /\ level = "word") =>
        \A l \in 1..Len(input_lines) :
            StripWs(LineTextNow(l)) = StripWs(output_lines[l])

\* C16: for every path of _alignment2path and every corrected line, also one
\* that does not end with whitespace, _update_sequence ends at
\* (i_max, j_max) with every element's content equal to its input segment:
\* neither the "did not reach top" nor the "does not match input section"
\* assertion fails.
C16_ReachesTop == err # "top" /\ err # "mismatch"

=============================================================================
